---- MODULE Spec2Model ----
(***************************************************************************)
(* A model of the buroz/oracle repository: the batch candlestick program   *)
(* (candlestick_oracle), the live Uniswap V2 swap feed (uniswap_v2) and the *)
(* Uniswap V3 pool quote (uniswap_v3).                                     *)
(* One run executes one of the programs; `program` says which.             *)
(*                                                                         *)
(* f64 values are modelled as exact non-negative rationals n/d in lowest   *)
(* terms, plus the two special values inf and NaN (reserves and amounts    *)
(* are unsigned, so no negative value arises).  Rounding of the binary     *)
(* representation is not modelled.                                         *)
(***************************************************************************)
EXTENDS Integers, Sequences, FiniteSets, TLC

VARIABLES
    program,          \* which binary runs: "candles", "live" or "v3"
    pc,               \* position of main
    token0_decimals,  \* ERC20 decimals() of token0
    token1_decimals,  \* ERC20 decimals() of token1
    now,              \* the wall clock reading (Utc::now())
    consumed,         \* candles: the Sync logs taken from `logs` so far
    price_data,       \* candles: Vec<PriceData>
    candlesticks,     \* candles: Vec<CandlestickData>
    reserves,         \* live: getReserves() result
    token0_per_token1,\* live, v3: quoted price
    token1_per_token0,\* live, v3: inverse quote
    sqrt_price_x96,   \* v3: slot0().sqrtPriceX96
    taken,            \* live: swap logs taken from the stream
    tasks,            \* live: state of the task spawned for each taken log
    emitted           \* live: the records printed so far

vars == <<program, pc, token0_decimals, token1_decimals, now, consumed,
          price_data, candlesticks, reserves, token0_per_token1,
          token1_per_token0, sqrt_price_x96, taken, tasks, emitted>>

(***************************************************************************)
(* Bounds of the model.                                                    *)
(***************************************************************************)
MaxLogs == 3
MaxSwaps == 2

(***************************************************************************)
(* f64 arithmetic.                                                         *)
(***************************************************************************)
RECURSIVE GCD(_, _)
GCD(a, b) == IF b = 0 THEN a ELSE GCD(b, a % b)

Fin(n, d) ==
    LET g == GCD(n, d)
    IN  IF n = 0 THEN [k |-> "fin", n |-> 0, d |-> 1]
        ELSE [k |-> "fin", n |-> n \div g, d |-> d \div g]

Inf == [k |-> "inf", n |-> 1, d |-> 0]
NaN == [k |-> "nan", n |-> 0, d |-> 0]
Zero == Fin(0, 1)
One == Fin(1, 1)

FDiv(x, y) ==
    IF x.k = "nan" \/ y.k = "nan" THEN NaN
    ELSE IF x.k = "inf" THEN (IF y.k = "inf" THEN NaN ELSE Inf)
    ELSE IF y.k = "inf" THEN Zero
    ELSE IF y.n = 0 THEN (IF x.n = 0 THEN NaN ELSE Inf)
    ELSE Fin(x.n * y.d, x.d * y.n)

FMul(x, y) ==
    IF x.k = "nan" \/ y.k = "nan" THEN NaN
    ELSE IF x.k = "inf" THEN (IF y.k = "fin" /\ y.n = 0 THEN NaN ELSE Inf)
    ELSE IF y.k = "inf" THEN (IF x.n = 0 THEN NaN ELSE Inf)
    ELSE Fin(x.n * y.n, x.d * y.d)

FAdd(x, y) ==
    IF x.k = "nan" \/ y.k = "nan" THEN NaN
    ELSE IF x.k = "inf" \/ y.k = "inf" THEN Inf
    ELSE Fin(x.n * y.d + y.n * x.d, x.d * y.d)

\* x < y on f64: false when either side is NaN
FLt(x, y) ==
    /\ x.k # "nan" /\ y.k # "nan"
    /\ x.k = "fin"
    /\ (y.k = "inf" \/ x.n * y.d < y.n * x.d)

FGe(x, y) == x.k # "nan" /\ y.k # "nan" /\ ~FLt(x, y)

\* f64::max and f64::min: a NaN operand is ignored
FMax(a, b) == IF a.k = "nan" THEN b ELSE IF b.k = "nan" THEN a
              ELSE IF FLt(a, b) THEN b ELSE a
FMin(a, b) == IF a.k = "nan" THEN b ELSE IF b.k = "nan" THEN a
              ELSE IF FLt(b, a) THEN b ELSE a

RECURSIVE IntPow10(_)
IntPow10(e) == IF e = 0 THEN 1 ELSE 10 * IntPow10(e - 1)

\* 10_f64.powi(e)
Powi10(e) == IF e >= 0 THEN Fin(IntPow10(e), 1) ELSE Fin(1, IntPow10(-e))

\* `x as f64` for an unsigned integer
AsF64(x) == Fin(x, 1)

(***************************************************************************)
(* format!("{:.p}", x): the decimal rendering with p fractional digits,    *)
(* rounded half to even, kept as the integer part and the digit sequence.  *)
(***************************************************************************)
RECURSIVE FracDigits(_, _, _)
\* the first p digits of r/d (r < d) and the remainder left after them
FracDigits(r, d, p) ==
    IF p = 0 THEN [digits |-> <<>>, rem |-> r]
    ELSE IF r = 0 THEN [digits |-> [i \in 1..p |-> 0], rem |-> 0]
    ELSE LET rest == FracDigits((r * 10) % d, d, p - 1)
         IN  [digits |-> <<(r * 10) \div d>> \o rest.digits, rem |-> rest.rem]

RECURSIVE CarryUp(_)
\* add one unit in the last place; carry = 1 when it runs out of the front
CarryUp(ds) ==
    IF ds = <<>> THEN [digits |-> <<>>, carry |-> 1]
    ELSE LET last == ds[Len(ds)]
             front == SubSeq(ds, 1, Len(ds) - 1)
         IN  IF last < 9 THEN [digits |-> Append(front, last + 1), carry |-> 0]
             ELSE LET up == CarryUp(front)
                  IN  [digits |-> Append(up.digits, 0), carry |-> up.carry]

FormatFixed(x, p) ==
    IF x.k = "inf" THEN [text |-> "inf", int |-> 0, frac |-> <<>>]
    ELSE IF x.k = "nan" THEN [text |-> "NaN", int |-> 0, frac |-> <<>>]
    ELSE LET ip == x.n \div x.d
             fd == FracDigits(x.n % x.d, x.d, p)
             lastDigit == IF p = 0 THEN ip % 10 ELSE fd.digits[p]
             roundUp == \/ 2 * fd.rem > x.d
                        \/ (2 * fd.rem = x.d /\ lastDigit % 2 = 1)
             up == CarryUp(fd.digits)
         IN  IF roundUp
             THEN [text |-> "num", int |-> ip + up.carry, frac |-> up.digits]
             ELSE [text |-> "num", int |-> ip, frac |-> fd.digits]

(***************************************************************************)
(* candlestick_oracle: the batch program.                                  *)
(***************************************************************************)
interval_minutes == 1
PRICE_DIGITS == 32
VOLUME_DIGITS == 16
SYNC_DATA_BYTES == 64

NoBlock == [tag |-> "none", ts |-> 0]
LookupFailed == [tag |-> "err", ts |-> 0]
\* a header timestamp whose i64 value chrono cannot represent
FarBlock == [tag |-> "far", ts |-> 0]
Block(t) == [tag |-> "some", ts |-> t]

\* (token0_decimals, token1_decimals)
DecimalPairs == {<<0, 0>>, <<0, 1>>}
NowSamples == {200}

SyncLog(len, r0, r1, b) ==
    [len |-> len, reserve0 |-> r0, reserve1 |-> r1, block |-> b]

\* the well-formed Sync logs the model draws: reserves, and the block's
\* header.timestamp as i64 (a u64 above i64::MAX casts to a negative value)
WellFormedSyncLogs ==
    {SyncLog(SYNC_DATA_BYTES, 1, 10, Block(100)),
     SyncLog(SYNC_DATA_BYTES, 1, 12, Block(100)),
     SyncLog(SYNC_DATA_BYTES, 1, 12, Block(130)),
     SyncLog(SYNC_DATA_BYTES, 1, 9, Block(170)),
     SyncLog(SYNC_DATA_BYTES, 0, 5, Block(130)),
     SyncLog(SYNC_DATA_BYTES, 5, 0, Block(170)),
     SyncLog(SYNC_DATA_BYTES, 3, 2, Block(100)),
     SyncLog(SYNC_DATA_BYTES, 1, 10, Block(-1)),
     SyncLog(SYNC_DATA_BYTES, 1, 10, FarBlock)}

\* a truncated payload, a failed block lookup, a missing block
MalformedSyncLogs ==
    {SyncLog(32, 1, 10, Block(100)),
     SyncLog(SYNC_DATA_BYTES, 1, 10, LookupFailed),
     SyncLog(SYNC_DATA_BYTES, 1, 10, NoBlock)}

\* the Sync logs get_logs may return
SyncLogs == WellFormedSyncLogs \cup MalformedSyncLogs

calculate_price_v2(reserve0, reserve1, d0, d1) ==
    IF reserve0 = 0 \/ reserve1 = 0 THEN Zero
    ELSE FMul(FDiv(AsF64(reserve1), AsF64(reserve0)), Powi10(d0 - d1))

estimate_volume_from_reserves(reserve0, reserve1, d0, d1) ==
    FMul(FAdd(FDiv(AsF64(reserve0), Powi10(d0)), FDiv(AsF64(reserve1), Powi10(d1))),
         Fin(1, 1000))

PriceData(t, p, v) == [timestamp |-> t, price |-> p, volume_usd |-> v]

\* parse_sync_event: Ok(data), Err (the lookup's error, propagated by `?`),
\* or a panic (slice index out of range, unwrap on None)
parse_sync_event(log, d0, d1, clock) ==
    IF log.len < SYNC_DATA_BYTES THEN [tag |-> "Panic", data |-> PriceData(0, Zero, Zero)]
    ELSE IF log.block.tag = "err" THEN [tag |-> "Err", data |-> PriceData(0, Zero, Zero)]
    ELSE IF log.block.tag = "none" THEN [tag |-> "Panic", data |-> PriceData(0, Zero, Zero)]
    ELSE [tag |-> "Ok",
          data |-> PriceData(
              IF log.block.tag = "far" THEN clock ELSE log.block.ts,
              calculate_price_v2(log.reserve0, log.reserve1, d0, d1),
              estimate_volume_from_reserves(log.reserve0, log.reserve1, d0, d1))]

RECURSIVE InsertByKey(_, _)
\* insert d after every element whose timestamp is <= d's
InsertByKey(sorted, d) ==
    IF sorted = <<>> THEN <<d>>
    ELSE IF Head(sorted).timestamp <= d.timestamp
         THEN <<Head(sorted)>> \o InsertByKey(Tail(sorted), d)
         ELSE <<d>> \o sorted

RECURSIVE SortFrom(_, _)
SortFrom(sorted, rest) ==
    IF rest = <<>> THEN sorted
    ELSE SortFrom(InsertByKey(sorted, Head(rest)), Tail(rest))

SortByKeyUnsorted(data) == data

\* sort_by_key(|d| d.timestamp): a stable sort, ascending
SortByKey(data) == SortFrom(<<>>, data)

\* truncating i64 division, as Rust's `/`
TruncDiv(a, b) == IF a >= 0 THEN a \div b ELSE -((-a) \div b)

IntervalStart(t, minutes) == TruncDiv(t, minutes * 60) * (minutes * 60)

RECURSIVE GroupByInterval(_, _, _)
\* the first loop of create_candlesticks: intervals.entry(start).or_default().push(data)
GroupByInterval(intervals, data, minutes) ==
    IF data = <<>> THEN intervals
    ELSE LET d == Head(data)
             start == IntervalStart(d.timestamp, minutes)
             old == IF start \in DOMAIN intervals THEN intervals[start] ELSE <<>>
             new == [s \in DOMAIN intervals \cup {start} |->
                        IF s = start THEN Append(old, d) ELSE intervals[s]]
         IN  GroupByInterval(new, Tail(data), minutes)

KeysDescending(keys) ==
    LET RECURSIVE Down(_)
        Down(ks) == IF ks = {} THEN <<>>
                    ELSE LET m == CHOOSE x \in ks : \A y \in ks : y <= x
                         IN  <<m>> \o Down(ks \ {m})
    IN  Down(keys)

\* the iteration order of a BTreeMap<i64, _>: its keys, ascending
KeysAscending(keys) ==
    LET RECURSIVE Up(_)
        Up(ks) == IF ks = {} THEN <<>>
                  ELSE LET m == CHOOSE x \in ks : \A y \in ks : x <= y
                       IN  <<m>> \o Up(ks \ {m})
    IN  Up(keys)

RECURSIVE FoldMax(_, _)
\* prices.iter().fold(acc, |a, &b| a.max(b))
FoldMax(acc, data) ==
    IF data = <<>> THEN acc ELSE FoldMax(FMax(acc, Head(data).price), Tail(data))

RECURSIVE FoldMin(_, _)
\* prices.iter().fold(acc, |a, &b| a.min(b))
FoldMin(acc, data) ==
    IF data = <<>> THEN acc ELSE FoldMin(FMin(acc, Head(data).price), Tail(data))

RECURSIVE SumVolume(_, _)
\* interval_data.iter().map(|d| d.volume_usd).sum(), left to right from 0.0
SumVolume(acc, data) ==
    IF data = <<>> THEN acc ELSE SumVolume(FAdd(acc, Head(data).volume_usd), Tail(data))

HighAsClose(data) == data[Len(data)].price

High(data) == FoldMax(Zero, data)

Low(data) == FoldMin(Inf, data)

\* the candlestick of one interval (the body of the second loop)
Candlestick(start, interval_data) ==
    LET data == SortByKey(interval_data)
        open == IF data = <<>> THEN Zero ELSE data[1].price
        close == IF data = <<>> THEN Zero ELSE data[Len(data)].price
    IN  [timestamp |-> start * 1000,
         open |-> FormatFixed(open, PRICE_DIGITS),
         high |-> FormatFixed(High(data), PRICE_DIGITS),
         low |-> FormatFixed(Low(data), PRICE_DIGITS),
         close |-> FormatFixed(close, PRICE_DIGITS),
         volume |-> FormatFixed(SumVolume(Zero, data), VOLUME_DIGITS)]

RECURSIVE EmitCandlesticks(_, _)
EmitCandlesticks(intervals, order) ==
    IF order = <<>> THEN <<>>
    ELSE IF intervals[Head(order)] = <<>> THEN EmitCandlesticks(intervals, Tail(order))
    ELSE <<Candlestick(Head(order), intervals[Head(order)])>>
         \o EmitCandlesticks(intervals, Tail(order))

create_candlesticks(data, minutes) ==
    LET intervals == GroupByInterval(<<>>, data, minutes)
    IN  EmitCandlesticks(intervals, KeysAscending(DOMAIN intervals))

(***************************************************************************)
(* Actions of the batch program.                                           *)
(***************************************************************************)
live_vars == <<reserves, token0_per_token1, token1_per_token0, taken, tasks, emitted>>
env_vars == <<program, token0_decimals, token1_decimals, now>>
pool_vars == <<sqrt_price_x96>>

\* one iteration of `for log in logs` in get_historical_price_data
ProcessSyncLog ==
    /\ program = "candles" /\ pc = "fetch"
    /\ Len(consumed) < MaxLogs
    /\ \E log \in SyncLogs :
          LET r == parse_sync_event(log, token0_decimals, token1_decimals, now)
          IN  /\ consumed' = Append(consumed, log)
              /\ price_data' = IF r.tag = "Ok" THEN Append(price_data, r.data)
                               ELSE price_data
              /\ pc' = IF r.tag = "Panic" THEN "panicked" ELSE "fetch"
    /\ UNCHANGED <<candlesticks, env_vars, live_vars, pool_vars>>

\* the logs are exhausted: sort and return the price data
ReturnPriceData ==
    /\ program = "candles" /\ pc = "fetch"
    /\ price_data' = SortByKey(price_data)
    /\ pc' = "aggregate"
    /\ UNCHANGED <<consumed, candlesticks, env_vars, live_vars, pool_vars>>

CreateCandlesticks ==
    /\ program = "candles" /\ pc = "aggregate"
    /\ candlesticks' = create_candlesticks(price_data, interval_minutes)
    /\ pc' = "done"
    /\ UNCHANGED <<consumed, price_data, env_vars, live_vars, pool_vars>>

(***************************************************************************)
(* uniswap_v2: the live program.                                           *)
(***************************************************************************)
\* a U256 as two 128-bit limbs: hi * 2^128 + lo
U256(hi, lo) == [hi |-> hi, lo |-> lo]
U256Zero == U256(0, 0)
GtZero(a) == a.hi > 0 \/ a.lo > 0

Stamp(t) == [tag |-> "some", ts |-> t]
NoStamp == [tag |-> "none", ts |-> 0]
\* a block_timestamp whose i64 value chrono cannot represent
FarStamp == [tag |-> "far", ts |-> 0]

SwapLog(ok, a0in, a1in, a0out, a1out, stamp) ==
    [decodable |-> ok, amount0In |-> a0in, amount1In |-> a1in,
     amount0Out |-> a0out, amount1Out |-> a1out, block_timestamp |-> stamp]

\* the Swap logs the subscription may deliver
SwapLogs ==
    {SwapLog(TRUE, U256(0, 5), U256Zero, U256Zero, U256(0, 3), Stamp(100)),
     SwapLog(TRUE, U256Zero, U256(0, 7), U256(0, 2), U256Zero, Stamp(130)),
     SwapLog(TRUE, U256Zero, U256Zero, U256Zero, U256Zero, Stamp(100)),
     SwapLog(TRUE, U256(0, 5), U256(0, 7), U256(0, 2), U256(0, 3), Stamp(100)),
     SwapLog(TRUE, U256(0, 5), U256Zero, U256Zero, U256(1, 0), Stamp(100)),
     SwapLog(FALSE, U256Zero, U256Zero, U256Zero, U256Zero, Stamp(100)),
     SwapLog(TRUE, U256Zero, U256(0, 7), U256(0, 2), U256Zero, NoStamp),
     SwapLog(TRUE, U256(0, 5), U256Zero, U256Zero, U256(0, 3), FarStamp)}

\* (reserve0, reserve1) getReserves() may return
LiveReservePairs == {<<0, 0>>, <<0, 5>>, <<5, 0>>, <<1, 10>>}

\* calculate_price_v2 of uniswap_v2/src/main.rs
calculate_price_v2_live(reserve0, reserve1, d0, d1) ==
    FMul(FDiv(AsF64(reserve1), AsF64(reserve0)), Powi10(d0 - d1))

\* format_token_amount: the text, or a panic when the amount exceeds u128
format_token_amount(amount, decimals) ==
    IF amount.hi > 0 THEN [tag |-> "Panic", text |-> FormatFixed(Zero, 0)]
    ELSE LET amount_f64 == FDiv(AsF64(amount.lo), Powi10(decimals))
         IN  [tag |-> "Ok",
              text |-> IF FGe(amount_f64, One) THEN FormatFixed(amount_f64, 4)
                       ELSE IF FGe(amount_f64, Fin(1, 10000)) THEN FormatFixed(amount_f64, 8)
                       ELSE FormatFixed(amount_f64, 12)]

\* timestamp.format("%Y-%m-%d %H:%M:%S UTC"), the date kept as the day number
FormatTimestamp(t) ==
    [day |-> t \div 86400, hour |-> (t % 86400) \div 3600,
     minute |-> (t % 3600) \div 60, second |-> t % 60]

\* the branch the spawned task takes for a decoded swap
Direction(swap) ==
    IF GtZero(swap.amount0In) /\ GtZero(swap.amount1Out) THEN "BUY"
    ELSE IF GtZero(swap.amount1In) /\ GtZero(swap.amount0Out) THEN "SELL"
    ELSE "NONE"

\* the body of the spawned task: the record it prints, nothing, or a panic
RunSwapTask(i, log, timestamp, d0, d1) ==
    IF ~log.decodable THEN [tag |-> "Panic", out |-> <<>>]
    ELSE LET dir == Direction(log)
             amount_in == IF dir = "BUY" THEN format_token_amount(log.amount0In, d0)
                          ELSE format_token_amount(log.amount1In, d1)
             amount_out == IF dir = "BUY" THEN format_token_amount(log.amount1Out, d1)
                           ELSE format_token_amount(log.amount0Out, d0)
         IN  IF dir = "NONE" THEN [tag |-> "Ok", out |-> <<>>]
             ELSE IF amount_in.tag = "Panic" \/ amount_out.tag = "Panic"
                  THEN [tag |-> "Panic", out |-> <<>>]
             ELSE [tag |-> "Ok",
                   out |-> <<[event |-> i,
                              timestamp |-> FormatTimestamp(timestamp),
                              pair |-> "T0-T1",
                              direction |-> dir,
                              amount_in |-> amount_in.text,
                              symbol_in |-> IF dir = "BUY" THEN "T0" ELSE "T1",
                              amount_out |-> amount_out.text,
                              symbol_out |-> IF dir = "BUY" THEN "T1" ELSE "T0"]>>]

\* the runtime shuts down: tasks that have not run are dropped
DropReady(ts) ==
    [i \in 1..Len(ts) |-> IF ts[i].state = "ready"
                          THEN [ts[i] EXCEPT !.state = "dropped"] ELSE ts[i]]

candle_vars == <<consumed, price_data, candlesticks>>

\* main up to the subscription: read the reserves and quote both prices
QuotePrice ==
    /\ program = "live" /\ pc = "setup"
    /\ \E rs \in LiveReservePairs :
          LET p == calculate_price_v2_live(rs[1], rs[2], token0_decimals, token1_decimals)
          IN  /\ reserves' = rs
              /\ token0_per_token1' = p
              /\ token1_per_token0' = FDiv(One, p)
    /\ pc' = "feed"
    /\ UNCHANGED <<taken, tasks, emitted, env_vars, candle_vars, pool_vars>>

\* one iteration of `while let Some(log) = stream.next().await`
TakeSwapLog ==
    /\ program = "live" /\ pc = "feed"
    /\ Len(taken) < MaxSwaps
    /\ \E log \in SwapLogs :
          /\ taken' = Append(taken, log)
          /\ IF log.block_timestamp.tag = "far"
             THEN \* DateTime::from_timestamp(..).unwrap() panics in main
                  /\ pc' = "panicked"
                  /\ tasks' = Append(DropReady(tasks), [state |-> "unspawned", timestamp |-> 0])
             ELSE /\ pc' = "feed"
                  /\ tasks' = Append(tasks,
                        [state |-> "ready",
                         timestamp |-> IF log.block_timestamp.tag = "none" THEN now
                                       ELSE log.block_timestamp.ts])
    /\ UNCHANGED <<reserves, token0_per_token1, token1_per_token0, emitted,
                   env_vars, candle_vars, pool_vars>>

\* a worker thread runs a spawned task to its end
RunTask ==
    /\ program = "live" /\ pc = "feed"
    /\ \E i \in 1..Len(tasks) :
          /\ tasks[i].state = "ready"
          /\ LET r == RunSwapTask(i, taken[i], tasks[i].timestamp,
                                  token0_decimals, token1_decimals)
             IN  /\ tasks' = [tasks EXCEPT ![i].state =
                                 IF r.tag = "Panic" THEN "panicked" ELSE "done"]
                 /\ emitted' = emitted \o r.out
    /\ UNCHANGED <<pc, reserves, token0_per_token1, token1_per_token0, taken,
                   env_vars, candle_vars, pool_vars>>

\* the stream ends: main returns Ok(()) and the runtime shuts down
FeedEnds ==
    /\ program = "live" /\ pc = "feed"
    /\ pc' = "ended"
    /\ tasks' = DropReady(tasks)
    /\ UNCHANGED <<reserves, token0_per_token1, token1_per_token0, taken, emitted,
                   env_vars, candle_vars, pool_vars>>

(***************************************************************************)
(* uniswap_v3: the pool quote.                                             *)
(***************************************************************************)
Q96_BITS == 96

\* a Uint<160> written hi * 2^128 + mant * 2^exp, the low part below 2^128
Uint160(hi, mant, exp) == [hi |-> hi, mant |-> mant, exp |-> exp]

\* the sqrtPriceX96 values slot0() may return: below, at and above 2^96,
\* and values that need more than 128 bits
SqrtPriceSamples ==
    {Uint160(0, 0, 96), Uint160(0, 1, 95), Uint160(0, 3, 95), Uint160(0, 1, 96),
     Uint160(0, 3, 96), Uint160(0, 5, 97), Uint160(1, 0, 96), Uint160(1, 3, 96),
     Uint160(2, 1, 95)}

RECURSIVE IntPow2(_)
IntPow2(e) == IF e = 0 THEN 1 ELSE 2 * IntPow2(e - 1)

\* (x as f64) / (2^96 as f64) for x below 2^128
RatioToQ96(x) ==
    IF x.exp >= Q96_BITS THEN Fin(x.mant * IntPow2(x.exp - Q96_BITS), 1)
    ELSE Fin(x.mant, IntPow2(Q96_BITS - x.exp))

\* whether sqrt_price.to::<u128>() succeeds
FitsU128(x) == x.hi = 0

\* (sqrt_price_f64 / q_96_f64).powi(2)
PriceRatio(x) == FMul(RatioToQ96(x), RatioToQ96(x))

\* calculate_price: the price, or a panic when the value exceeds u128
calculate_price(x, d0, d1) ==
    IF ~FitsU128(x) THEN [tag |-> "Panic", price |-> Zero]
    ELSE [tag |-> "Ok", price |-> FMul(PriceRatio(x), Powi10(d0 - d1))]

\* main of uniswap_v3: read slot0 and quote both prices
QuoteSqrtPrice ==
    /\ program = "v3" /\ pc = "setup"
    /\ \E x \in SqrtPriceSamples :
          LET r == calculate_price(x, token0_decimals, token1_decimals)
          IN  /\ sqrt_price_x96' = x
              /\ IF r.tag = "Panic"
                 THEN /\ pc' = "panicked"
                      /\ UNCHANGED <<token0_per_token1, token1_per_token0>>
                 ELSE /\ pc' = "done"
                      /\ token0_per_token1' = r.price
                      /\ token1_per_token0' = FDiv(One, r.price)
    /\ UNCHANGED <<reserves, taken, tasks, emitted, env_vars, candle_vars>>

Init ==
    /\ program \in {"candles", "live", "v3"}
    /\ pc = IF program = "candles" THEN "fetch" ELSE "setup"
    /\ \E ds \in DecimalPairs : token0_decimals = ds[1] /\ token1_decimals = ds[2]
    /\ now \in NowSamples
    /\ consumed = <<>>
    /\ price_data = <<>>
    /\ candlesticks = <<>>
    /\ reserves = <<0, 0>>
    /\ token0_per_token1 = Zero
    /\ token1_per_token0 = Zero
    /\ sqrt_price_x96 = Uint160(0, 0, 96)
    /\ taken = <<>>
    /\ tasks = <<>>
    /\ emitted = <<>>

Next ==
    \/ ProcessSyncLog
    \/ ReturnPriceData
    \/ CreateCandlesticks
    \/ QuotePrice
    \/ TakeSwapLog
    \/ RunTask
    \/ FeedEnds
    \/ QuoteSqrtPrice

Spec == Init /\ [][Next]_vars

(***************************************************************************)
(* Properties of the batch program.                                        *)
(***************************************************************************)
RECURSIVE Observations(_)
\* the observations of the logs, in arrival order
Observations(logs) ==
    IF logs = <<>> THEN <<>>
    ELSE LET r == parse_sync_event(Head(logs), token0_decimals, token1_decimals, now)
         IN  (IF r.tag = "Ok" THEN <<r.data>> ELSE <<>>) \o Observations(Tail(logs))

Permute(seq, p) == [i \in 1..Len(seq) |-> seq[p[i]]]

\* the candle series of a batch of observations arriving in the given order
Build(obs) == create_candlesticks(SortByKey(obs), interval_minutes)

\* p keeps observations that share a timestamp in their relative order
KeepsTieOrder(obs, p) ==
    \A i, j \in 1..Len(obs) :
        (i < j /\ obs[p[i]].timestamp = obs[p[j]].timestamp) => p[i] < p[j]

BatchDone == program = "candles" /\ pc = "done"

C2_BucketStartIsFloor ==
    BatchDone =>
        LET obs == Observations(consumed)
            I == interval_minutes * 60
        IN  \A i \in 1..Len(obs) :
                \E k \in 1..Len(candlesticks) :
                    LET b == candlesticks[k].timestamp \div 1000
                    IN  /\ b = (obs[i].timestamp \div I) * I
                        /\ b % I = 0
                        /\ b <= obs[i].timestamp /\ obs[i].timestamp < b + I

\* the indices of the observations that fall into the bucket starting at b
Members(obs, b) ==
    {i \in 1..Len(obs) : IntervalStart(obs[i].timestamp, interval_minutes) = b}

RECURSIVE VolumeOf(_, _)
VolumeOf(obs, M) ==
    IF M = {} THEN Zero
    ELSE LET i == CHOOSE x \in M : TRUE
         IN  FAdd(obs[i].volume_usd, VolumeOf(obs, M \ {i}))

\* c is the OHLCV reduction of the observations with indices M
IsReduction(c, obs, M) ==
    /\ M # {}
    /\ \E first \in M :
          /\ \A j \in M : \/ obs[first].timestamp < obs[j].timestamp
                          \/ (obs[first].timestamp = obs[j].timestamp /\ first <= j)
          /\ c.open = FormatFixed(obs[first].price, PRICE_DIGITS)
    /\ \E last \in M :
          /\ \A j \in M : \/ obs[j].timestamp < obs[last].timestamp
                          \/ (obs[j].timestamp = obs[last].timestamp /\ j <= last)
          /\ c.close = FormatFixed(obs[last].price, PRICE_DIGITS)
    /\ \E hi \in M :
          /\ \A j \in M : ~FLt(obs[hi].price, obs[j].price)
          /\ c.high = FormatFixed(obs[hi].price, PRICE_DIGITS)
    /\ \E lo \in M :
          /\ \A j \in M : ~FLt(obs[j].price, obs[lo].price)
          /\ c.low = FormatFixed(obs[lo].price, PRICE_DIGITS)
    /\ c.volume = FormatFixed(VolumeOf(obs, M), VOLUME_DIGITS)

\* C3: every candle is the OHLCV reduction of exactly the observations of its
\* bucket: open the first and close the last by timestamp (ties in input
\* order), high the maximum, low the minimum, volume the sum.
C3_CandleIsReduction ==
    BatchDone =>
        LET obs == Observations(consumed)
        IN  \A k \in 1..Len(candlesticks) :
                IsReduction(candlesticks[k], obs,
                            Members(obs, candlesticks[k].timestamp \div 1000))

Digits(int, p) == [text |-> "num", int |-> int, frac |-> [i \in 1..p |-> 0]]

\* the scenario (100,10), (130,12), (170,9) at 60 s: bucket 60 is 10/10/10/10
\* and bucket 120 opens at 12, closes at 9, high 12, low 9
C3_Witness ==
    /\ BatchDone
    /\ token0_decimals = 0 /\ token1_decimals = 0
    /\ consumed = <<SyncLog(SYNC_DATA_BYTES, 1, 9, Block(170)),
                    SyncLog(SYNC_DATA_BYTES, 1, 10, Block(100)),
                    SyncLog(SYNC_DATA_BYTES, 1, 12, Block(130))>>
    /\ Len(candlesticks) = 2
    /\ candlesticks[1].timestamp = 60000
    /\ candlesticks[1].open = Digits(10, 32) /\ candlesticks[1].close = Digits(10, 32)
    /\ candlesticks[1].high = Digits(10, 32) /\ candlesticks[1].low = Digits(10, 32)
    /\ candlesticks[2].timestamp = 120000
    /\ candlesticks[2].open = Digits(12, 32) /\ candlesticks[2].close = Digits(9, 32)
    /\ candlesticks[2].high = Digits(12, 32) /\ candlesticks[2].low = Digits(9, 32)

\* C4: one candle for each bucket an observation falls into, none for any
\* other bucket, in strictly ascending bucketStart order.
C4_OneCandlePerBucketAscending ==
    BatchDone =>
        LET obs == Observations(consumed)
        IN  /\ \A k \in 1..(Len(candlesticks) - 1) :
                  candlesticks[k].timestamp < candlesticks[k + 1].timestamp
            /\ {candlesticks[k].timestamp : k \in 1..Len(candlesticks)}
                 = {IntervalStart(obs[i].timestamp, interval_minutes) * 1000 :
                        i \in 1..Len(obs)}

\* a finished batch with several candles, one of them holding several
\* observations, arrived out of bucket order
C4_Witness ==
    /\ BatchDone
    /\ Len(candlesticks) >= 2
    /\ Len(Observations(consumed)) > Len(candlesticks)
    /\ LET obs == Observations(consumed)
       IN  \E i, j \in 1..Len(obs) :
              i < j /\ IntervalStart(obs[i].timestamp, interval_minutes)
                         > IntervalStart(obs[j].timestamp, interval_minutes)

ZeroReserve(log) == log.reserve0 = 0 \/ log.reserve1 = 0

\* C6: a Sync event with a zero reserve contributes no observation to the
\* data passed to create_candlesticks.
C6_ZeroReserveExcluded ==
    (program = "candles" /\ pc \in {"aggregate", "done"}) =>
        Len(price_data) =
            Cardinality({i \in 1..Len(consumed) :
                /\ parse_sync_event(consumed[i], token0_decimals, token1_decimals, now).tag = "Ok"
                /\ ~ZeroReserve(consumed[i])})

\* C7: a malformed Sync log (short payload, failed or empty block lookup) is
\* left out without raising; the batch is not aborted.
C7_MalformedLogSkipped ==
    (program = "candles" /\ \E i \in 1..Len(consumed) : consumed[i] \in MalformedSyncLogs)
        => pc # "panicked"

OkLogs(logs) ==
    LET IsOk(log) ==
            parse_sync_event(log, token0_decimals, token1_decimals, now).tag = "Ok"
    IN  SelectSeq(logs, IsOk)

\* C5: the price derived from reserves is 0 whenever either reserve is 0, in
\* the batch program and in the live program.
C5_ZeroReservePriceIsZero ==
    /\ (program = "candles" /\ pc = "fetch") =>
          \A i \in 1..Len(price_data) :
              ZeroReserve(OkLogs(consumed)[i]) => price_data[i].price = Zero
    /\ (program = "live" /\ pc # "setup" /\ (reserves[1] = 0 \/ reserves[2] = 0)) =>
          token0_per_token1 = Zero

(***************************************************************************)
(* Properties of the live program.                                         *)
(***************************************************************************)
BuyPair(swap) == GtZero(swap.amount0In) /\ GtZero(swap.amount1Out)
SellPair(swap) == GtZero(swap.amount1In) /\ GtZero(swap.amount0Out)

\* the classification the specification gives: exactly one active pair
Classified(swap) ==
    IF BuyPair(swap) /\ ~SellPair(swap) THEN "BUY"
    ELSE IF SellPair(swap) /\ ~BuyPair(swap) THEN "SELL"
    ELSE "NONE"

RecordsOf(i) == {k \in 1..Len(emitted) : emitted[k].event = i}

\* C8: a decoded swap is Buy iff amount0In > 0 and amount1Out > 0, Sell iff
\* amount1In > 0 and amount0Out > 0, otherwise Ambiguous (all-zero and
\* both-pairs-active included), and an Ambiguous swap prints no record.
C8_DirectionClassification ==
    program = "live" =>
        \A i \in 1..Len(taken) :
            tasks[i].state = "done" =>
                IF Classified(taken[i]) = "NONE" THEN RecordsOf(i) = {}
                ELSE \A k \in RecordsOf(i) : emitted[k].direction = Classified(taken[i])

\* C9: a failure while handling one swap log (decode, amount conversion,
\* timestamp) is confined to that event: it never ends the feed loop.
C9_FailureConfinedToEvent ==
    program = "live" => pc # "panicked"

\* C10: when the feed has ended, every taken log that classifies as Buy or
\* Sell has printed its record exactly once.
C10_EveryAcceptedEventEmittedOnce ==
    (program = "live" /\ pc = "ended") =>
        \A i \in 1..Len(taken) :
            (taken[i].decodable /\ Direction(taken[i]) # "NONE")
                => Cardinality(RecordsOf(i)) = 1

(***************************************************************************)
(* Properties of the pool quote.                                           *)
(***************************************************************************)
\* x <= y as 160-bit unsigned values (exponents are at least 95)
SqrtLeq(x, y) ==
    \/ x.hi < y.hi
    \/ (x.hi = y.hi /\ x.mant * IntPow2(x.exp - 95) <= y.mant * IntPow2(y.exp - 95))

\* C11: for fixed decimals calculate_price is defined for every sqrtPriceQ96
\* of the 160-bit range and is monotonically increasing: a larger input
\* never gives a smaller price and never makes the derivation fail.
C11_DefinedAndMonotone ==
    (program = "v3" /\ pc # "setup") =>
        /\ pc = "done"
        /\ \A y \in SqrtPriceSamples :
              SqrtLeq(sqrt_price_x96, y) =>
                  LET r == calculate_price(y, token0_decimals, token1_decimals)
                  IN  r.tag = "Ok" /\ ~FLt(r.price, token0_per_token1)

====
